---- MODULE Spec2Model ----
(***************************************************************************)
(* Model of notion_mirror_availability_sync.py: one batch job, run(), that *)
(* mirrors the approved rows of a source database into a target database,  *)
(* one target page per source page, upserted through an index keyed by the *)
(* "Sync Key" text stored on the target pages.                             *)
(*                                                                         *)
(* The two databases are the environment.  Between runs the source rows    *)
(* may be edited and the calendar day may advance; during a run any API    *)
(* call may raise.  A run is split at its API calls: one action per        *)
(* query_all() call and one per iteration of the row loop.                 *)
(***************************************************************************)
EXTENDS Integers, Sequences, FiniteSets, TLC

\* ------------------------------------------------------------------------
\* Bounds of the model
\* ------------------------------------------------------------------------
MaxRuns == 2        \* runs of run() started in one behaviour
MaxChanges == 1     \* environment changes (source edits, day advances)
MaxPages == 3       \* pages of a chain the store answers one scan with

\* ------------------------------------------------------------------------
\* Program constant
\* ------------------------------------------------------------------------
LOOKBACK_DAYS == 45

\* Python's None, and a property that is missing or holds no value
NULL == [none |-> TRUE]

\* ------------------------------------------------------------------------
\* datetime.date, as the standard library computes it (proleptic Gregorian
\* ordinals, Monday = 0)
\* ------------------------------------------------------------------------
IsLeap(y) == (y % 4 = 0) /\ ((y % 100 # 0) \/ (y % 400 = 0))

DaysInMonth(y, m) ==
    IF m = 2 THEN (IF IsLeap(y) THEN 29 ELSE 28)
    ELSE IF m \in {4, 6, 9, 11} THEN 30 ELSE 31

DaysBeforeYear(y) ==
    (y - 1) * 365 + ((y - 1) \div 4) - ((y - 1) \div 100) + ((y - 1) \div 400)

RECURSIVE DaysBeforeMonth(_, _)
DaysBeforeMonth(y, m) ==
    IF m = 1 THEN 0 ELSE DaysBeforeMonth(y, m - 1) + DaysInMonth(y, m - 1)

Date(y, m, d) == [y |-> y, m |-> m, d |-> d]

ToOrdinal(dt) == DaysBeforeYear(dt.y) + DaysBeforeMonth(dt.y, dt.m) + dt.d

\* month and day of the n-th day (1-based) of year y
RECURSIVE MonthDay(_, _, _)
MonthDay(y, m, n) ==
    IF n <= DaysInMonth(y, m) THEN Date(y, m, n)
    ELSE MonthDay(y, m + 1, n - DaysInMonth(y, m))

FromOrdinal(n) ==
    LET n0 == n - 1
        n400 == n0 \div 146097
        r400 == n0 % 146097
        n100 == r400 \div 36524
        r100 == r400 % 36524
        n4 == r100 \div 1461
        r4 == r100 % 1461
        n1 == r4 \div 365
        r1 == r4 % 365
        year == n400 * 400 + n100 * 100 + n4 * 4 + n1 + 1
    IN  IF n1 = 4 \/ n100 = 4 THEN Date(year - 1, 12, 31)
        ELSE MonthDay(year, 1, r1 + 1)

\* date - timedelta(days=k)
MinusDays(dt, k) == FromOrdinal(ToOrdinal(dt) - k)

PlusDays(dt, k) == FromOrdinal(ToOrdinal(dt) + k)

\* date.__lt__
DateLT(a, b) == ToOrdinal(a) < ToOrdinal(b)

IsoWeek1Monday(year) ==
    LET firstday == ToOrdinal(Date(year, 1, 1))
        firstweekday == (firstday + 6) % 7
        week1monday == firstday - firstweekday
    IN  IF firstweekday > 3 THEN week1monday + 7 ELSE week1monday

\* date.isocalendar(): <<iso year, iso week, iso weekday>>
IsoCalendar(dt) ==
    LET today_ == ToOrdinal(dt)
        w0 == (today_ - IsoWeek1Monday(dt.y)) \div 7
    IN  IF today_ < IsoWeek1Monday(dt.y)
        THEN <<dt.y - 1,
               ((today_ - IsoWeek1Monday(dt.y - 1)) \div 7) + 1,
               ((today_ - IsoWeek1Monday(dt.y - 1)) % 7) + 1>>
        ELSE IF w0 >= 52 /\ today_ >= IsoWeek1Monday(dt.y + 1)
        THEN <<dt.y + 1, 1, ((today_ - IsoWeek1Monday(dt.y + 1)) % 7) + 1>>
        ELSE <<dt.y, w0 + 1, ((today_ - IsoWeek1Monday(dt.y)) % 7) + 1>>

Pad2(n) == IF n < 10 THEN "0" \o ToString(n) ELSE ToString(n)

Pad4(n) ==
    IF n < 10 THEN "000" \o ToString(n)
    ELSE IF n < 100 THEN "00" \o ToString(n)
    ELSE IF n < 1000 THEN "0" \o ToString(n)
    ELSE ToString(n)

\* date.isoformat() and str(date): "YYYY-MM-DD"
IsoFormat(dt) == Pad4(dt.y) \o "-" \o Pad2(dt.m) \o "-" \o Pad2(dt.d)

\* f"{iso_year}-W{iso_week:02d}"
IsoWeekStr(dt) ==
    LET c == IsoCalendar(dt) IN ToString(c[1]) \o "-W" \o Pad2(c[2])

\* A date text of the store: the first ten characters as the three numbers
\* they spell, and whatever follows them (a time part).
DateText(y, m, d, tail) == [y |-> y, m |-> m, d |-> d, tail |-> tail]

\* date.fromisoformat(s[:10]) raises ValueError on a month or day that is
\* out of range.
IsoParses(s) == s.m \in 1..12 /\ s.d \in 1..DaysInMonth(s.y, s.m)

FromIsoformat(s) == Date(s.y, s.m, s.d)

\* ------------------------------------------------------------------------
\* The stores
\* ------------------------------------------------------------------------
\* A status text is kept as its sequence of characters.
Formula(chars) == [type |-> "formula", string |-> chars]

Select(name) == [name |-> name]

TxtApproved == <<"A", "p", "p", "r", "o", "v", "e", "d">>
TxtLower == <<"a", "p", "p", "r", "o", "v", "e", "d">>
TxtPadded == <<" ", "A", "p", "p", "r", "o", "v", "e", "d", " ">>
TxtPending == <<"P", "e", "n", "d", "i", "n", "g">>

SourceIds == {"p1", "p2"}

IdOrder == <<"p1", "p2">>

Absent == [absent |-> TRUE]

\* The properties of a source page.
Props(status, start, till, type, people, unavail) ==
    [Status |-> status, LeaveStart |-> start, TillDate |-> till,
     LeaveType |-> type, Requestor |-> people, ClientUnavail |-> unavail]

Recent == DateText(2025, 2, 10, "")
RecentEnd == DateText(2025, 2, 12, "T09:00:00.000+00:00")
AtCutoff == DateText(2025, 1, 15, "")
BadMonth == DateText(2025, 13, 1, "")

\* Source pages the environment writes.  The status is the string of the
\* "Status" formula.
Full == Props(Formula(TxtApproved), Recent, RecentEnd, Select("Annual"), {"u1"}, FALSE)
Bare == Props(Formula(TxtApproved), Recent, AtCutoff, NULL, {}, TRUE)
NoStart == Props(Formula(TxtApproved), NULL, RecentEnd, Select("Annual"), {"u1"}, FALSE)
BadStart == Props(Formula(TxtApproved), BadMonth, RecentEnd, Select("Annual"), {"u1"}, FALSE)
Lower == Props(Formula(TxtLower), Recent, RecentEnd, Select("Annual"), {"u1"}, FALSE)
Padded == Props(Formula(TxtPadded), Recent, RecentEnd, Select("Annual"), {"u1"}, FALSE)
Pending == Props(Formula(TxtPending), Recent, RecentEnd, Select("Annual"), {"u1"}, FALSE)
NoStatus == Props(NULL, Recent, RecentEnd, Select("Annual"), {"u1"}, FALSE)

\* In one behaviour the environment writes the pages of one of these sets.
Universes ==
    { {Full, Bare}, {Full, NoStart}, {Full, BadStart},
      {Lower, Padded, Pending, NoStatus} }

\* Source pages told apart by their dates.  With today = FirstDay the cutoff
\* is 2025-01-15.
WeekStart == DateText(2025, 2, 5, "")
WeekEnd == DateText(2025, 2, 11, "")
BeforeCutoff == DateText(2025, 1, 10, "")
AfterCutoff == DateText(2025, 1, 20, "")
LongAgo == DateText(2025, 1, 2, "")
LongAgoEnd == DateText(2025, 1, 3, "")

\* Wednesday through Tuesday, a half day each
Week == Props(Formula(TxtApproved), WeekStart, WeekEnd, Select("Half Day"), {"u1"}, FALSE)
\* begins before the cutoff and ends after it
Straddle == Props(Formula(TxtApproved), BeforeCutoff, AfterCutoff, Select("Annual"), {"u1"}, FALSE)
\* wholly before the cutoff
Old == Props(Formula(TxtApproved), LongAgo, LongAgoEnd, Select("Annual"), {"u1"}, FALSE)
\* "Till Date" empty
NoEnd == Props(Formula(TxtApproved), Recent, NULL, Select("Annual"), {"u1"}, FALSE)
\* "Till Date" before "Leave Start Date"
Inverted == Props(Formula(TxtApproved), RecentEnd, Recent, Select("Annual"), {"u1"}, FALSE)

DateUniverses == { {Week, Straddle, Old}, {NoEnd, Inverted} }

\* The properties of a target page.  SyncKey is the rich-text list: the
\* plain_text of each segment.
TargetProps(key, name, start, end, type, unavail, week, people, synced) ==
    [SyncKey |-> key, Name |-> name, LeaveStart |-> start, LeaveEnd |-> end,
     LeaveType |-> type, ClientUnavail |-> unavail, ISOWeek |-> week,
     AssignedTo |-> people, LastSynced |-> synced]

DateProp(text) == [start |-> text]

\* A page made by hand in the target, with no Sync Key.
Keyless ==
    TargetProps(<<>>, "manual", NULL, NULL, NULL, FALSE, "", {}, 0)

\* A page an earlier run left for source page p1.
Earlier ==
    TargetProps(<<"p1|LEAVE">>, "Leave | 2025-02-03 -> 2025-02-04",
                DateProp("2025-02-03"), DateProp("2025-02-04"),
                Select("Annual"), FALSE, "2025-W06", {"u2"}, 0)

TargetInits == { <<>>, <<Keyless, Earlier>> }

FirstDay == Date(2025, 3, 1)

\* ------------------------------------------------------------------------
\* databases.query and query_all
\* ------------------------------------------------------------------------
Cursor(n) == [page |-> n]

Page(results, has_more, next_cursor) ==
    [results |-> results, has_more |-> has_more, next_cursor |-> next_cursor]

\* The chains of pages a store may answer a query of `rows` with: all rows
\* in one page, or two pages, the second of which starts either after the
\* last row of the first or with that row once more (the store moved
\* between the two requests).
Chains(rows) ==
    { <<Page(rows, FALSE, NULL)>> } \cup
    UNION { { <<Page(SubSeq(rows, 1, k), TRUE, Cursor(2)),
                Page(SubSeq(rows, j, Len(rows)), FALSE, NULL)>> :
              j \in {k, k + 1} } : k \in 1..Len(rows) }

\* The loop of query_all over one chain; `cursor` NULL asks for the first
\* page.
RECURSIVE QueryLoop(_, _, _)
QueryLoop(chain, cursor, results) ==
    LET resp == chain[IF cursor # NULL THEN cursor.page ELSE 1]
        acc == results \o resp.results
    IN  IF ~resp.has_more THEN acc
        ELSE QueryLoop(chain, resp.next_cursor, acc)

QueryAll(chain) == QueryLoop(chain, NULL, <<>>)

source_filter == [property |-> "Status", equals |-> TxtApproved]

\* The store's reading of a filter: the formula's string equals the text.
Matches(page, filter) ==
    \/ filter = NULL
    \/ /\ page.properties[filter.property] # NULL
       /\ page.properties[filter.property].string = filter.equals

RECURSIVE SourcePages(_, _)
SourcePages(db, ids) ==
    IF ids = <<>> THEN <<>>
    ELSE (IF db[Head(ids)] = Absent THEN <<>>
          ELSE <<[id |-> Head(ids), properties |-> db[Head(ids)]]>>)
         \o SourcePages(db, Tail(ids))

\* The rows of the source database a query with `filter` covers.
SourceRows(db, filter) ==
    SelectSeq(SourcePages(db, IdOrder), LAMBDA pg : Matches(pg, filter))

\* The rows of the target database; a page's id is its position.
TargetRows(db) == [i \in 1..Len(db) |-> [id |-> i, properties |-> db[i]]]

\* ------------------------------------------------------------------------
\* run(): helpers
\* ------------------------------------------------------------------------
EmptyIndex == [k \in {} |-> 0]

\* IndexRows reading the "Name" title for the key instead of "Sync Key"
RECURSIVE IndexRowsByName(_, _)
IndexRowsByName(rows, idx) ==
    IF rows = <<>> THEN idx
    ELSE LET row == Head(rows)
             name == row.properties.Name
         IN  IndexRowsByName(Tail(rows),
                 [k \in DOMAIN idx \cup {name} |->
                     IF k = name THEN row.id ELSE idx[k]])

\* IndexRows without the "if sync_key_prop" test: a page with no key is
\* indexed under the empty text
RECURSIVE IndexRowsUnguarded(_, _)
IndexRowsUnguarded(rows, idx) ==
    IF rows = <<>> THEN idx
    ELSE LET row == Head(rows)
             sync_key_prop == row.properties.SyncKey
             key == IF sync_key_prop # <<>> THEN sync_key_prop[1] ELSE ""
         IN  IndexRowsUnguarded(Tail(rows),
                 [k \in DOMAIN idx \cup {key} |->
                     IF k = key THEN row.id ELSE idx[k]])

\* The loop that fills target_index from the rows of the target.
RECURSIVE IndexRows(_, _)
IndexRows(rows, idx) ==
    IF rows = <<>> THEN idx
    ELSE LET row == Head(rows)
             sync_key_prop == row.properties.SyncKey
         IN  IndexRows(Tail(rows),
                 IF sync_key_prop # <<>>
                 THEN [k \in DOMAIN idx \cup {sync_key_prop[1]} |->
                          IF k = sync_key_prop[1] THEN row.id ELSE idx[k]]
                 ELSE idx)

\* get_date(prop): the text is parsed, and a text that does not parse raises
GetDateRaises(prop) == prop # NULL /\ ~IsoParses(prop)

GetDate(prop) == IF prop = NULL THEN NULL ELSE FromIsoformat(prop)

\* "if not start_date or not end_date or end_date < cutoff"
Skips(start_date, end_date, cut) ==
    \/ start_date = NULL
    \/ end_date = NULL
    \/ DateLT(end_date, cut)

\* SyncKeyOf with the day of the end date in the key
SyncKeyOfTill(page) ==
    page.id \o "|" \o ToString(page.properties.TillDate.d)

\* f"{page['id']}|LEAVE"
SyncKeyOf(page) == page.id \o "|LEAVE"

NoProps == [k \in {} |-> NULL]

\* Payload with a "Sync Key" that is not the key the index is asked for
PayloadDatedKey(page, start_date, end_date, now) ==
    [ Name |-> "Leave | " \o IsoFormat(start_date) \o " -> "
                  \o IsoFormat(end_date),
      SyncKey |-> <<page.id \o "|" \o IsoFormat(start_date)>>,
      LeaveStart |-> DateProp(IsoFormat(start_date)),
      LeaveEnd |-> DateProp(IsoFormat(end_date)),
      ClientUnavail |-> page.properties.ClientUnavail,
      ISOWeek |-> IsoWeekStr(start_date),
      LastSynced |-> now ]

\* Payload with the None values kept: a missing leave type or requestor is
\* written as an empty value
PayloadClearing(page, start_date, end_date, now) ==
    [ Name |-> "Leave | " \o IsoFormat(start_date) \o " -> "
                  \o IsoFormat(end_date),
      SyncKey |-> <<page.id \o "|LEAVE">>,
      LeaveStart |-> DateProp(IsoFormat(start_date)),
      LeaveEnd |-> DateProp(IsoFormat(end_date)),
      LeaveType |-> IF page.properties.LeaveType # NULL
                    THEN Select(page.properties.LeaveType.name) ELSE NULL,
      ClientUnavail |-> page.properties.ClientUnavail,
      ISOWeek |-> IsoWeekStr(start_date),
      AssignedTo |-> page.properties.Requestor,
      LastSynced |-> now ]

\* The properties written for a page, the None values removed.
Payload(page, start_date, end_date, now) ==
    LET props == page.properties
        leave_type == props.LeaveType
        requestor_people == props.Requestor
    IN  [ Name |-> "Leave | " \o IsoFormat(start_date) \o " -> "
                      \o IsoFormat(end_date),
          SyncKey |-> <<SyncKeyOf(page)>>,
          LeaveStart |-> DateProp(IsoFormat(start_date)),
          LeaveEnd |-> DateProp(IsoFormat(end_date)),
          ClientUnavail |-> props.ClientUnavail,
          ISOWeek |-> IsoWeekStr(start_date),
          LastSynced |-> now ]
        @@ (IF leave_type # NULL /\ leave_type.name # ""
            THEN [LeaveType |-> Select(leave_type.name)] ELSE NoProps)
        @@ (IF requestor_people # {}
            THEN [AssignedTo |-> requestor_people] ELSE NoProps)

BlankPage == TargetProps(<<>>, "", NULL, NULL, NULL, FALSE, "", {}, 0)

\* pages.create: a new page holding the payload
PagesCreate(db, payload) == Append(db, payload @@ BlankPage)

\* pages.update: the properties of the payload overwritten, the rest kept
PagesUpdate(db, id, payload) == [db EXCEPT ![id] = payload @@ @]

\* Incr that counts a row twice
IncrTwice(n) == n + 2

\* "created += 1", "updated += 1", "skipped += 1"
Incr(n) == n + 1

\* ExistingId that finds nothing
ExistingIdNever(idx, sync_key) == 0

\* target_index.get(sync_key); 0 stands for None
ExistingId(idx, sync_key) == IF sync_key \in DOMAIN idx THEN idx[sync_key] ELSE 0

\* IndexPut with the assignment left out
IndexPutNothing(idx, sync_key, id) == idx

\* target_index[sync_key] = resp["id"]
IndexPut(idx, sync_key, id) ==
    [k \in DOMAIN idx \cup {sync_key} |-> IF k = sync_key THEN id ELSE idx[k]]

\* ------------------------------------------------------------------------
\* State
\* ------------------------------------------------------------------------
VARIABLES
    universe,       \* the source pages the environment writes
    source_db,      \* the source database: id -> properties, or Absent
    target_db,      \* the target database: the sequence of its pages
    today,          \* date.today()
    clock,          \* the number of runs started; stands for utcnow()
    pc,             \* where run() is: idle, query_source, debug_query,
                    \*   build_index, loop, done, aborted
    err,            \* the exception that ended the run, or "none"
    cutoff,         \* locals of run()
    source_rows,
    target_index,
    created,
    updated,
    skipped,
    pos,            \* the position of the row loop in source_rows
    log,            \* history: what the loop did with each row of this run
    index_builds,   \* history: index builds of this run
    at_start,       \* history: the stores and the day when this run began
    prev,           \* history: the run before this one, in short
    issued,         \* history: source page id -> the Sync Keys written for it
    changes,        \* environment changes so far
    failed,         \* history: API calls of this run that raised
    environ,        \* os.environ: the names that hold a non-empty value
    peer,           \* a second execution of run(), started while this one runs
    query           \* a call of query_all() followed request by request

vars == <<universe, source_db, target_db, today, clock, pc, err, cutoff, source_rows,
          target_index, created, updated, skipped, pos, log, index_builds,
          at_start, prev, issued, changes, failed,
          environ, peer, query>>

env == <<universe, source_db, today, changes, environ>>

locals == <<cutoff, source_rows, target_index, created, updated, skipped, pos>>

history == <<log, index_builds, at_start, prev, issued>>

\* What the steps of this execution of run() leave alone.
aside == <<peer, query>>

NoRun == [pc |-> "idle"]

\* NOTION_TOKEN, SOURCE_DB_ID, TARGET_DB_ID
EnvNames == {"NOTION_TOKEN", "SOURCE_DB_ID", "TARGET_DB_ID"}

\* ConfigComplete that tests the token only
ConfigTokenOnly(e) == "NOTION_TOKEN" \in e

\* not (not NOTION_TOKEN or not SOURCE_DB_ID or not TARGET_DB_ID)
ConfigComplete(e) ==
    ~("NOTION_TOKEN" \notin e \/ "SOURCE_DB_ID" \notin e \/ "TARGET_DB_ID" \notin e)

\* No call of query_all() followed on its own.
NoQuery == [pc |-> "idle"]

\* No second execution.
NoPeer == [pc |-> "idle"]

\* The stores as the environment left them, and no run() called yet.
Quiet ==
    /\ source_db \in [SourceIds -> universe \cup {Absent}]
    /\ target_db \in TargetInits
    /\ today = FirstDay
    /\ pc = "idle"
    /\ err = "none"
    /\ cutoff = NULL
    /\ source_rows = <<>>
    /\ target_index = EmptyIndex
    /\ created = 0 /\ updated = 0 /\ skipped = 0
    /\ pos = 0
    /\ log = <<>>
    /\ index_builds = 0
    /\ at_start = NoRun
    /\ prev = NoRun
    /\ issued = [id \in SourceIds |-> {}]
    /\ changes = 0

Init ==
    /\ universe \in Universes
    /\ clock = 0
    /\ Quiet
    /\ failed = 0
    /\ environ = EnvNames
    /\ peer = NoPeer
    /\ query = NoQuery

\* The ids of the target pages the entries of a log wrote.
Written(entries) ==
    { entries[i].id : i \in { j \in DOMAIN entries : entries[j].id # 0 } }

Resting == pc \in {"idle", "done", "aborted"}

\* Between two runs: run() has ended and will be called again.
Between == pc \in {"done", "aborted"} /\ clock < MaxRuns

\* ------------------------------------------------------------------------
\* The environment, between two runs
\* ------------------------------------------------------------------------
\* A source page is written, added or deleted.
EditSource ==
    /\ Between /\ changes < MaxChanges
    /\ \E id \in SourceIds, shape \in universe \cup {Absent} :
          /\ shape # source_db[id]
          /\ source_db' = [source_db EXCEPT ![id] = shape]
    /\ changes' = changes + 1
    /\ UNCHANGED <<universe, target_db, today, clock, pc, err, locals, history,
                   failed, environ, aside>>

NextDay ==
    /\ Between /\ changes < MaxChanges
    /\ today' = PlusDays(today, 1)
    /\ changes' = changes + 1
    /\ UNCHANGED <<universe, source_db, target_db, clock, pc, err, locals,
                   history, failed, environ, aside>>

\* ------------------------------------------------------------------------
\* run()
\* ------------------------------------------------------------------------
\* An uncaught exception ends the process.
Raise(e) ==
    /\ pc' = "aborted"
    /\ err' = e

\* The module is loaded with its configuration complete and run() is
\* called: cutoff = date.today() - timedelta(days=LOOKBACK_DAYS)
StartRun ==
    /\ Resting /\ clock < MaxRuns
    /\ ConfigComplete(environ)
    /\ clock' = clock + 1
    /\ pc' = "query_source"
    /\ err' = "none"
    /\ cutoff' = MinusDays(today, LOOKBACK_DAYS)
    /\ source_rows' = <<>>
    /\ target_index' = EmptyIndex
    /\ created' = 0 /\ updated' = 0 /\ skipped' = 0
    /\ pos' = 0
    /\ log' = <<>>
    /\ index_builds' = 0
    /\ failed' = 0
    /\ at_start' = [pc |-> "run", source |-> source_db, target |-> target_db,
                    today |-> today]
    /\ prev' = IF pc = "idle" THEN NoRun
               ELSE [pc |-> pc, err |-> err, created |-> created,
                     updated |-> updated, skipped |-> skipped,
                     rows |-> Len(source_rows),
                     written |-> Written(log),
                     source |-> at_start.source, today |-> at_start.today,
                     pages |-> Len(at_start.target)]
    /\ UNCHANGED <<env, target_db, issued, aside>>

\* source_rows = query_all(SOURCE_DB_ID, source_filter)
QuerySource ==
    /\ pc = "query_source"
    /\ \E chain \in Chains(SourceRows(source_db, source_filter)) :
          /\ source_rows' = QueryAll(chain)
          /\ pc' = IF Len(source_rows') = 0 THEN "debug_query" ELSE "build_index"
    /\ UNCHANGED <<env, target_db, clock, err, cutoff, target_index, created,
                   updated, skipped, pos, history, failed, aside>>

\* if len(source_rows) == 0: all_rows = query_all(SOURCE_DB_ID); only logged
DebugQuery ==
    /\ pc = "debug_query"
    /\ \E chain \in Chains(SourceRows(source_db, NULL)) :
          Len(QueryAll(chain)) >= 0
    /\ pc' = "build_index"
    /\ UNCHANGED <<env, target_db, clock, err, locals, history, failed, aside>>

\* for row in query_all(TARGET_DB_ID): ...; created = updated = skipped = 0
BuildIndex ==
    /\ pc = "build_index"
    /\ \E chain \in Chains(TargetRows(target_db)) :
          target_index' = IndexRows(QueryAll(chain), EmptyIndex)
    /\ created' = 0 /\ updated' = 0 /\ skipped' = 0
    /\ pos' = 1
    /\ pc' = "loop"
    /\ index_builds' = index_builds + 1
    /\ UNCHANGED <<env, target_db, clock, err, cutoff, source_rows, log,
                   at_start, prev, issued, failed, aside>>

\* A databases.query call of one of the three scans raises.
QueryRaises ==
    /\ pc \in {"query_source", "debug_query", "build_index"}
    /\ Raise("APIError")
    /\ failed' = failed + 1
    /\ UNCHANGED <<env, target_db, clock, locals, history, aside>>

Entry(page, outcome, id) == [page |-> page, outcome |-> outcome, id |-> id]

\* history: the key of a payload written for a source page
Issue(page, payload) ==
    [issued EXCEPT ![page.id] = @ \cup {payload.SyncKey[1]}]

\* One iteration of "for page in source_rows" whose API call, if it makes
\* one, returns.
LoopStep ==
    /\ pc = "loop" /\ pos <= Len(source_rows)
    /\ LET page == source_rows[pos]
           props == page.properties
       IN  IF GetDateRaises(props.LeaveStart) \/ GetDateRaises(props.TillDate)
           THEN /\ Raise("ValueError")
                /\ UNCHANGED <<target_db, target_index, created, updated,
                               skipped, pos, log, issued>>
           ELSE
           LET start_date == GetDate(props.LeaveStart)
               end_date == GetDate(props.TillDate)
               sync_key == SyncKeyOf(page)
               existing_id == ExistingId(target_index, sync_key)
               payload == Payload(page, start_date, end_date, clock)
           IN  /\ pos' = pos + 1
               /\ UNCHANGED <<pc, err>>
               /\ IF Skips(start_date, end_date, cutoff)
                  THEN /\ skipped' = Incr(skipped)
                       /\ log' = Append(log, Entry(page, "skipped", 0))
                       /\ UNCHANGED <<target_db, target_index, created,
                                      updated, issued>>
                  ELSE IF existing_id # 0
                  THEN /\ target_db' = PagesUpdate(target_db, existing_id, payload)
                       /\ updated' = Incr(updated)
                       /\ log' = Append(log, Entry(page, "updated", existing_id))
                       /\ issued' = Issue(page, payload)
                       /\ UNCHANGED <<target_index, created, skipped>>
                  ELSE /\ target_db' = PagesCreate(target_db, payload)
                       /\ target_index' = IndexPut(target_index, sync_key,
                                                   Len(target_db'))
                       /\ created' = Incr(created)
                       /\ log' = Append(log, Entry(page, "created", Len(target_db')))
                       /\ issued' = Issue(page, payload)
                       /\ UNCHANGED <<updated, skipped>>
    /\ UNCHANGED <<env, clock, cutoff, source_rows, index_builds, at_start,
                   prev, failed, aside>>

\* The pages.update or pages.create call of an iteration raises, whether or
\* not the store has applied it.
WriteRaises ==
    /\ pc = "loop" /\ pos <= Len(source_rows)
    /\ LET page == source_rows[pos]
           props == page.properties
       IN  /\ ~GetDateRaises(props.LeaveStart) /\ ~GetDateRaises(props.TillDate)
           /\ LET start_date == GetDate(props.LeaveStart)
                  end_date == GetDate(props.TillDate)
                  existing_id == ExistingId(target_index, SyncKeyOf(page))
                  payload == Payload(page, start_date, end_date, clock)
              IN  /\ ~Skips(start_date, end_date, cutoff)
                  /\ \/ /\ log' = Append(log, Entry(page, "raised", 0))
                        /\ UNCHANGED <<target_db, issued>>
                     \/ /\ existing_id # 0
                        /\ target_db' = PagesUpdate(target_db, existing_id, payload)
                        /\ log' = Append(log, Entry(page, "update_lost", existing_id))
                        /\ issued' = Issue(page, payload)
                     \/ /\ existing_id = 0
                        /\ target_db' = PagesCreate(target_db, payload)
                        /\ log' = Append(log, Entry(page, "create_lost", Len(target_db')))
                        /\ issued' = Issue(page, payload)
    /\ Raise("APIError")
    /\ failed' = failed + 1
    /\ UNCHANGED <<env, clock, locals, index_builds, at_start, prev, aside>>

\* The loop is over: the summary line is logged and run() returns.
Finish ==
    /\ pc = "loop" /\ pos > Len(source_rows)
    /\ pc' = "done"
    /\ UNCHANGED <<env, target_db, clock, err, locals, history, failed, aside>>

Next ==
    \/ EditSource
    \/ NextDay
    \/ StartRun
    \/ QuerySource
    \/ DebugQuery
    \/ BuildIndex
    \/ QueryRaises
    \/ LoopStep
    \/ WriteRaises
    \/ Finish

Spec == Init /\ [][Next]_vars

\* ------------------------------------------------------------------------
\* Two executions of run() that overlap
\* ------------------------------------------------------------------------
\* The second execution has its own locals; the stores are shared.  Its
\* steps are those of run(), on its own locals.
PeerRunning ==
    peer.pc \in {"query_source", "debug_query", "build_index", "loop"}

\* The second execution is started while the first is inside run().
PeerStart ==
    /\ ~Resting
    /\ peer.pc = "idle"
    /\ peer' = [pc |-> "query_source",
                cutoff |-> MinusDays(today, LOOKBACK_DAYS),
                source_rows |-> <<>>, target_index |-> EmptyIndex,
                created |-> 0, updated |-> 0, skipped |-> 0, pos |-> 0,
                log |-> <<>>]
    /\ UNCHANGED <<env, target_db, clock, pc, err, locals, history, failed, query>>

PeerQuerySource ==
    /\ peer.pc = "query_source"
    /\ \E chain \in Chains(SourceRows(source_db, source_filter)) :
          peer' = [peer EXCEPT
                      !.source_rows = QueryAll(chain),
                      !.pc = IF Len(QueryAll(chain)) = 0 THEN "debug_query"
                             ELSE "build_index"]
    /\ UNCHANGED <<env, target_db, clock, pc, err, locals, history, failed, query>>

PeerDebugQuery ==
    /\ peer.pc = "debug_query"
    /\ \E chain \in Chains(SourceRows(source_db, NULL)) :
          Len(QueryAll(chain)) >= 0
    /\ peer' = [peer EXCEPT !.pc = "build_index"]
    /\ UNCHANGED <<env, target_db, clock, pc, err, locals, history, failed, query>>

PeerBuildIndex ==
    /\ peer.pc = "build_index"
    /\ \E chain \in Chains(TargetRows(target_db)) :
          peer' = [peer EXCEPT
                      !.target_index = IndexRows(QueryAll(chain), EmptyIndex),
                      !.created = 0, !.updated = 0, !.skipped = 0,
                      !.pos = 1, !.pc = "loop"]
    /\ UNCHANGED <<env, target_db, clock, pc, err, locals, history, failed, query>>

\* One iteration of the row loop of the second execution.
PeerLoopStep ==
    /\ peer.pc = "loop" /\ peer.pos <= Len(peer.source_rows)
    /\ LET page == peer.source_rows[peer.pos]
           props == page.properties
       IN  IF GetDateRaises(props.LeaveStart) \/ GetDateRaises(props.TillDate)
           THEN /\ peer' = [peer EXCEPT !.pc = "aborted"]
                /\ UNCHANGED <<target_db, issued>>
           ELSE
           LET start_date == GetDate(props.LeaveStart)
               end_date == GetDate(props.TillDate)
               sync_key == SyncKeyOf(page)
               existing_id == ExistingId(peer.target_index, sync_key)
               payload == Payload(page, start_date, end_date, clock)
           IN  IF Skips(start_date, end_date, peer.cutoff)
               THEN /\ peer' = [peer EXCEPT
                                   !.skipped = Incr(@), !.pos = @ + 1,
                                   !.log = Append(@, Entry(page, "skipped", 0))]
                    /\ UNCHANGED <<target_db, issued>>
               ELSE IF existing_id # 0
               THEN /\ target_db' = PagesUpdate(target_db, existing_id, payload)
                    /\ peer' = [peer EXCEPT
                                   !.updated = Incr(@), !.pos = @ + 1,
                                   !.log = Append(@, Entry(page, "updated",
                                                           existing_id))]
                    /\ issued' = Issue(page, payload)
               ELSE /\ target_db' = PagesCreate(target_db, payload)
                    /\ peer' = [peer EXCEPT
                                   !.target_index = IndexPut(@, sync_key,
                                                             Len(target_db')),
                                   !.created = Incr(@), !.pos = @ + 1,
                                   !.log = Append(@, Entry(page, "created",
                                                           Len(target_db')))]
                    /\ issued' = Issue(page, payload)
    /\ UNCHANGED <<env, clock, pc, err, locals, log, index_builds, at_start,
                   prev, failed, query>>

\* An API call of the second execution raises before the store applies it.
PeerRaises ==
    /\ PeerRunning
    /\ peer.pc = "loop" => peer.pos <= Len(peer.source_rows)
    /\ peer' = [peer EXCEPT !.pc = "aborted"]
    /\ UNCHANGED <<env, target_db, clock, pc, err, locals, history, failed, query>>

PeerFinish ==
    /\ peer.pc = "loop" /\ peer.pos > Len(peer.source_rows)
    /\ peer' = [peer EXCEPT !.pc = "done"]
    /\ UNCHANGED <<env, target_db, clock, pc, err, locals, history, failed, query>>

\* The last run() of a behaviour is about to be called.
InitOverlap ==
    /\ universe = {Full, Bare}
    /\ clock = MaxRuns - 1
    /\ Quiet
    /\ failed = 0
    /\ environ = EnvNames
    /\ peer = NoPeer
    /\ query = NoQuery

NextOverlap ==
    \/ StartRun
    \/ QuerySource
    \/ DebugQuery
    \/ BuildIndex
    \/ QueryRaises
    \/ LoopStep
    \/ WriteRaises
    \/ Finish
    \/ PeerStart
    \/ PeerQuerySource
    \/ PeerDebugQuery
    \/ PeerBuildIndex
    \/ PeerLoopStep
    \/ PeerRaises
    \/ PeerFinish

SpecOverlap == InitOverlap /\ [][NextOverlap]_vars

\* The same program on source pages told apart by their dates.
InitDates ==
    /\ universe \in DateUniverses
    /\ clock = 0
    /\ Quiet
    /\ failed = 0
    /\ environ = EnvNames
    /\ peer = NoPeer
    /\ query = NoQuery

SpecDates == InitDates /\ [][Next]_vars

\* The module is loaded with a name missing: RuntimeError("Missing required
\* environment variables") is raised before Client() and before run().
ConfigError ==
    /\ Resting /\ clock < MaxRuns
    /\ ~ConfigComplete(environ)
    /\ clock' = clock + 1
    /\ Raise("RuntimeError")
    /\ UNCHANGED <<env, target_db, locals, history, failed, aside>>

\* The program started under any configuration.
InitConfig ==
    /\ universe = {Full, Bare}
    /\ clock = 0
    /\ Quiet
    /\ failed = 0
    /\ environ \in SUBSET EnvNames
    /\ peer = NoPeer
    /\ query = NoQuery

NextConfig ==
    \/ ConfigError
    \/ Next

SpecConfig == InitConfig /\ [][NextConfig]_vars

\* ------------------------------------------------------------------------
\* query_all(), request by request
\* ------------------------------------------------------------------------
\* The chains of at most MaxPages pages a store may hold for `rows`: the
\* rows cut into consecutive pages, some of them empty; a page with
\* has_more true carries the cursor of the page after it, and the last page
\* has has_more false.
PagingChains(rows) ==
    UNION { { [k \in 1..n |->
                 Page(SubSeq(rows, cut[k - 1] + 1, cut[k]), more[k],
                      IF more[k] THEN Cursor(k + 1) ELSE NULL)] :
              cut \in { c \in [0..n -> 0..Len(rows)] :
                          /\ c[0] = 0 /\ c[n] = Len(rows)
                          /\ \A k \in 1..n : c[k - 1] <= c[k] },
              more \in { m \in [1..n -> BOOLEAN] : ~m[n] } } :
            n \in 1..MaxPages }

\* NextCursor that loses the cursor
NextCursorNone(resp) == NULL

\* cursor = resp["next_cursor"]
NextCursor(resp) == resp.next_cursor

\* The page the store answers a request with: the page the start_cursor
\* names, the first page when the payload has no start_cursor.
Requested(cursor) == IF cursor # NULL THEN cursor.page ELSE 1

\* One pass of "while True": the request is sent and returns.
QueryRequest ==
    /\ query.pc = "request"
    /\ LET resp == query.chain[Requested(query.cursor)]
       IN  query' = [query EXCEPT
                        !.reads = Append(@, Requested(query.cursor)),
                        !.results = @ \o resp.results,
                        !.pc = IF ~resp.has_more THEN "returned" ELSE @,
                        !.cursor = IF ~resp.has_more THEN @
                                   ELSE NextCursor(resp)]
    /\ UNCHANGED <<env, target_db, clock, pc, err, locals, history, failed,
                   peer>>

\* notion.databases.query raises: the exception leaves query_all().
QueryRequestRaises ==
    /\ query.pc = "request"
    /\ query' = [query EXCEPT !.pc = "raised"]
    /\ UNCHANGED <<env, target_db, clock, pc, err, locals, history, failed,
                   peer>>

\* query_all(SOURCE_DB_ID, source_filter) has been called: cursor = None,
\* results = [].
InitPaging ==
    /\ universe = {Full, Bare}
    /\ clock = 0
    /\ Quiet
    /\ failed = 0
    /\ environ = EnvNames
    /\ peer = NoPeer
    /\ \E chain \in PagingChains(SourceRows(source_db, source_filter)) :
          query = [pc |-> "request", chain |-> chain, cursor |-> NULL,
                   results |-> <<>>, reads |-> <<>>]

NextPaging ==
    \/ QueryRequest
    \/ QueryRequestRaises

SpecPaging ==
    InitPaging /\ [][NextPaging]_vars /\ WF_vars(QueryRequest)

\* ------------------------------------------------------------------------
\* Properties
\* ------------------------------------------------------------------------
\* The entries of the log that wrote a target page.
Writes == { i \in DOMAIN log : log[i].id # 0 }

\* The entries of the log whose call returned.
Creates == { i \in DOMAIN log : log[i].outcome = "created" }

Updates == { i \in DOMAIN log : log[i].outcome = "updated" }

\* The run fetched every row the source filter covers once.
FetchedOnce(n, db) == n = Len(SourceRows(db, source_filter))

\* This run and the one before it both completed, on the same source
\* dataset and the same day, each fetching every row once.
SecondOfTwo ==
    /\ pc = "done"
    /\ prev.pc = "done"
    /\ prev.source = at_start.source
    /\ prev.today = at_start.today
    /\ FetchedOnce(prev.rows, prev.source)
    /\ FetchedOnce(Len(source_rows), at_start.source)

\* C1: a second complete run on the unchanged source, day and target
\* creates nothing, and updates once each target page the first run created
\* or updated.
C1_Idempotence ==
    SecondOfTwo =>
        /\ created = 0
        /\ Creates = {}
        /\ updated = Cardinality(prev.written)
        /\ updated = prev.created + prev.updated
        /\ Written(log) = prev.written

C1_Witness ==
    /\ SecondOfTwo
    /\ prev.created >= 1
    /\ prev.updated >= 1
    /\ updated = 2

KeyedPages == { i \in DOMAIN target_db : target_db[i].SyncKey # <<>> }

\* C2: no two target pages store the same non-empty Sync Key, whatever the
\* runs did, a row fetched twice in one run included.
C2_SyncKeyUnique ==
    \A i, j \in KeyedPages :
        target_db[i].SyncKey = target_db[j].SyncKey => i = j

\* The same row twice in one run: created, then updated.
C2_Witness ==
    \E i, j \in DOMAIN log :
        /\ i < j
        /\ log[i].page.id = log[j].page.id
        /\ log[i].outcome = "created"
        /\ log[j].outcome = "updated"
        /\ log[j].id = log[i].id

\* The rule of the specification's approval gate: the status text, trimmed
\* and in lower case, is "approved".
UpperLetters ==
    <<"A", "B", "C", "D", "E", "F", "G", "H", "I", "J", "K", "L", "M",
      "N", "O", "P", "Q", "R", "S", "T", "U", "V", "W", "X", "Y", "Z">>

LowerLetters ==
    <<"a", "b", "c", "d", "e", "f", "g", "h", "i", "j", "k", "l", "m",
      "n", "o", "p", "q", "r", "s", "t", "u", "v", "w", "x", "y", "z">>

LowerChar(c) ==
    IF \E n \in DOMAIN UpperLetters : UpperLetters[n] = c
    THEN LowerLetters[CHOOSE n \in DOMAIN UpperLetters : UpperLetters[n] = c]
    ELSE c

LowerText(t) == [n \in DOMAIN t |-> LowerChar(t[n])]

RECURSIVE TrimText(_)
TrimText(t) ==
    IF t = <<>> THEN t
    ELSE IF Head(t) = " " THEN TrimText(Tail(t))
    ELSE IF t[Len(t)] = " " THEN TrimText(SubSeq(t, 1, Len(t) - 1))
    ELSE t

GateApproves(status) ==
    /\ status # NULL
    /\ LowerText(TrimText(status.string)) = TxtLower

IsFetched(id) == \E n \in DOMAIN source_rows : source_rows[n].id = id

\* C3: a source page is treated as approved (fetched, and so written) if
\* and only if its trimmed, lower-cased status is "approved"; no other page
\* is ever written.
C3_ApprovalGate ==
    /\ pc \in {"debug_query", "build_index"} =>
          \A id \in SourceIds :
              source_db[id] # Absent =>
                  (IsFetched(id) <=> GateApproves(source_db[id].Status))
    /\ \A i \in Writes : GateApproves(log[i].page.properties.Status)

\* C4: an approved page with no requestor is skipped and not written; a
\* page that is not approved is not written.
C4_SkipVersusReject ==
    \A i \in DOMAIN log :
        LET props == log[i].page.properties
        IN  /\ (GateApproves(props.Status) /\ props.Requestor = {}) =>
                  (log[i].outcome = "skipped" /\ log[i].id = 0)
            /\ ~GateApproves(props.Status) => log[i].id = 0

\* C5: no page with a missing field or a date that does not parse ends the
\* run: a run is aborted by an API failure only, and a run that completes
\* has handled every fetched row.
C5_FailOpen ==
    /\ pc = "aborted" => err = "APIError"
    /\ pc = "done" => Len(log) = Len(source_rows)

\* A complete run that follows a run an API failure aborted, on the same
\* source dataset.
RerunAfterAbort ==
    /\ pc = "done"
    /\ prev.pc = "aborted"
    /\ prev.err = "APIError"
    /\ prev.source = at_start.source

\* The target pages the run before this one created.
MadeByPrev == (prev.pages + 1)..Len(at_start.target)

PagesWithKey(key) == { t \in KeyedPages : target_db[t].SyncKey = <<key>> }

\* C6: the complete run creates no second page for a source page whose
\* target page the aborted run created, but updates that page, and every
\* source page it wrote has exactly one target page.
C6_RerunAfterAbort ==
    RerunAfterAbort =>
        /\ \A t \in MadeByPrev : \A i \in Writes :
              target_db[log[i].id].SyncKey = at_start.target[t].SyncKey =>
                  (log[i].outcome = "updated" /\ log[i].id = t)
        /\ \A i \in Writes :
              Cardinality(PagesWithKey(target_db[log[i].id].SyncKey[1])) = 1
        /\ \A i, j \in Writes :
              log[i].page.id = log[j].page.id => log[i].id = log[j].id

C6_Witness ==
    /\ RerunAfterAbort
    /\ prev.written # {}
    /\ \E i \in Updates : log[i].id \in MadeByPrev
    /\ created >= 1

\* The source page a key belongs to, by the key the run builds for it.
OwnersOf(key) == { id \in SourceIds : key = <<SyncKeyOf([id |-> id])>> }

\* The record is invalid by the specification: no start date, or no
\* requestor.
Invalid(props) == props.LeaveStart = NULL \/ props.Requestor = {}

\* The source page is deleted, not approved or invalid.
Retired(id) ==
    \/ source_db[id] = Absent
    \/ /\ source_db[id] # Absent
       /\ \/ ~GateApproves(source_db[id].Status)
          \/ Invalid(source_db[id])

\* C7: no step removes a target page, and a target page whose source page
\* is deleted, un-approved or invalid is left as it is.
C7_NeverDeleted ==
    [][ /\ Len(target_db') >= Len(target_db)
        /\ \A t \in DOMAIN target_db :
              (\A id \in OwnersOf(target_db[t].SyncKey) : Retired(id)) =>
                  target_db'[t] = target_db[t] ]_vars

\* C8: no step changes the Sync Key a target page stores: an update writes
\* the key under which the page was found.
C8_SyncKeyImmutable ==
    [][ \A t \in DOMAIN target_db :
            target_db'[t].SyncKey = target_db[t].SyncKey ]_vars

\* An update has changed other properties of a page that had a key.
C8_Witness ==
    \E i \in Updates :
        /\ log[i].id \in DOMAIN at_start.target
        /\ at_start.target[log[i].id].SyncKey # <<>>
        /\ at_start.target[log[i].id].Name # target_db[log[i].id].Name

IndexedIds == { target_index[k] : k \in DOMAIN target_index }

\* The scan of the target has just ended.
IndexJustBuilt == pc = "loop" /\ pos = 1

\* C9: the index is built once in a run, before the first write; right
\* after the build it maps a key to a page only if the page stores that
\* non-empty key, it holds every page that stores a key, and no page
\* without one.
C9_TargetIndex ==
    /\ pc \in {"query_source", "debug_query", "build_index"} =>
          (index_builds = 0 /\ log = <<>>)
    /\ pc \in {"loop", "done"} => index_builds = 1
    /\ Writes # {} => index_builds = 1
    /\ IndexJustBuilt =>
          /\ log = <<>>
          /\ target_db = at_start.target
          /\ \A k \in DOMAIN target_index :
                /\ k # ""
                /\ target_index[k] \in DOMAIN target_db
                /\ target_db[target_index[k]].SyncKey = <<k>>
          /\ \A t \in DOMAIN target_db :
                IF target_db[t].SyncKey = <<>>
                THEN t \notin IndexedIds
                ELSE target_db[t].SyncKey[1] \in DOMAIN target_index

C9_Witness ==
    /\ IndexJustBuilt
    /\ \E t \in DOMAIN target_db : target_db[t].SyncKey = <<>>
    /\ \E t \in DOMAIN target_db : t \in IndexedIds
    /\ clock = 2

\* The properties the specification derives the key from.
Facts(page) ==
    <<page.properties.Requestor, page.properties.LeaveStart,
      page.properties.TillDate, page.properties.LeaveType>>

\* C10 as stated: pages with equal requestors, dates and leave type get the
\* same key.
C10_KeyOfFacts ==
    \A i, j \in Writes :
        Facts(log[i].page) = Facts(log[j].page) =>
            target_db[log[i].id].SyncKey = target_db[log[j].id].SyncKey

\* C10, amended: the key is a function of the source page's id: every key
\* written for one source page is the same, in any run and whatever its
\* properties have become, and no key is written for two source pages.
C10_KeyOfPage ==
    \A a, b \in SourceIds :
        \A ka \in issued[a] : \A kb \in issued[b] : (ka = kb) <=> (a = b)

\* Both source pages have been written, one of them in two runs with
\* different properties.
C10_Witness ==
    /\ \A id \in SourceIds : issued[id] # {}
    /\ prev.pc = "done" /\ prev.written # {}
    /\ \E i \in Writes :
          /\ prev.source[log[i].page.id] # Absent
          /\ prev.source[log[i].page.id] # log[i].page.properties
          /\ Cardinality(prev.written) = 2

\* The entries of the two logs whose create call the store applied.
CreatedBy(entries) ==
    { i \in DOMAIN entries : entries[i].outcome \in {"created", "create_lost"} }

PeerLog == IF peer.pc = "idle" THEN <<>> ELSE peer.log

\* Both executions created a page for the same source page.
BothCreated(i, j) ==
    /\ i \in CreatedBy(log)
    /\ j \in CreatedBy(PeerLog)
    /\ log[i].page.id = PeerLog[j].page.id

\* C11: two executions of run() that overlap can each create a page for one
\* Sync Key.  Nothing keeps the second create from happening: when both
\* have created for one source page the two pages are different pages that
\* store the same key, each execution's index holds its own page, and two
\* pages with one key come about in no other way.
C11_DoubleCreate ==
    /\ \A i \in DOMAIN log, j \in DOMAIN PeerLog :
          BothCreated(i, j) =>
              /\ log[i].id # PeerLog[j].id
              /\ target_db[log[i].id].SyncKey = <<SyncKeyOf(log[i].page)>>
              /\ target_db[PeerLog[j].id].SyncKey = <<SyncKeyOf(log[i].page)>>
              /\ peer.target_index[SyncKeyOf(log[i].page)] = PeerLog[j].id
              /\ log[i].outcome = "created" =>
                    target_index[SyncKeyOf(log[i].page)] = log[i].id
    /\ \A t, u \in KeyedPages :
          (t # u /\ target_db[t].SyncKey = target_db[u].SyncKey) =>
              \E i \in DOMAIN log, j \in DOMAIN PeerLog :
                  BothCreated(i, j) /\ {t, u} = {log[i].id, PeerLog[j].id}

\* Both executions have completed, no call of either failed, and both
\* created a page for one key.
C11_Witness ==
    /\ pc = "done" /\ peer.pc = "done"
    /\ \E i \in DOMAIN log, j \in DOMAIN PeerLog :
          /\ BothCreated(i, j)
          /\ log[i].outcome = "created"
          /\ PeerLog[j].outcome = "created"
          /\ Cardinality(PagesWithKey(SyncKeyOf(log[i].page))) = 2

\* C12: an API call that fails is tried again, and an API failure ends the
\* run only when the call has failed more than once.
C12_BoundedRetry ==
    (pc = "aborted" /\ err = "APIError") => failed > 1

\* date.weekday(): Monday = 0
Weekday(dt) == (ToOrdinal(dt) + 6) % 7

\* The calendar days from start to end, Saturdays and Sundays left out.
WorkingDays(start, end) ==
    { d \in { FromOrdinal(n) : n \in ToOrdinal(start)..ToOrdinal(end) } :
        Weekday(d) < 5 }

\* The target pages this run wrote for a source page.
PagesFor(id) == { log[i].id : i \in { j \in Writes : log[j].page.id = id } }

\* The dates of a row handled by the loop.
StartOf(page) == GetDate(page.properties.LeaveStart)

EndOf(page) == GetDate(page.properties.TillDate)

\* A range the specification calls valid, none of it before the cutoff.
InWindow(page) ==
    /\ StartOf(page) # NULL /\ EndOf(page) # NULL
    /\ ~DateLT(EndOf(page), StartOf(page))
    /\ ~DateLT(StartOf(page), cutoff)

\* C13: a record with range [start, end] gives one target page per working
\* day of the range, each for that day alone.
C13_IntervalExpansion ==
    pc = "done" =>
        \A i \in DOMAIN log :
            InWindow(log[i].page) =>
                LET days == WorkingDays(StartOf(log[i].page), EndOf(log[i].page))
                    pages == PagesFor(log[i].page.id)
                IN  /\ Cardinality(pages) = Cardinality(days)
                    /\ \A d \in days : \E t \in pages :
                          /\ target_db[t].LeaveStart = DateProp(IsoFormat(d))
                          /\ target_db[t].LeaveEnd = DateProp(IsoFormat(d))

\* The row's call returned, or the row was skipped.
Settled(entry) == entry.outcome \in {"skipped", "created", "updated"}

\* The date properties that name a day from the cutoff on, up to a lookback
\* window past today.
FromCutoffOn ==
    { DateProp(IsoFormat(FromOrdinal(n))) :
        n \in ToOrdinal(cutoff)..(ToOrdinal(today) + LOOKBACK_DAYS) }

\* C14: no date before cutoff = today - LOOKBACK_DAYS is written to the
\* target, a record whose range reaches the cutoff is still written, and a
\* record whose whole range lies before the cutoff is not written.
C14_Lookback ==
    \A i \in DOMAIN log :
        LET page == log[i].page
        IN  (StartOf(page) # NULL /\ EndOf(page) # NULL /\ Settled(log[i])) =>
                /\ DateLT(EndOf(page), cutoff) => log[i].id = 0
                /\ (~DateLT(EndOf(page), cutoff)
                        /\ ~DateLT(EndOf(page), StartOf(page))) => log[i].id # 0
                /\ log[i].id # 0 =>
                      /\ target_db[log[i].id].LeaveStart \in FromCutoffOn
                      /\ target_db[log[i].id].LeaveEnd \in FromCutoffOn

\* C15: a record with a start date and no end date is written, its end
\* date taken to be its start date, and is not skipped.
C15_EndDefault ==
    \A i \in DOMAIN log :
        LET page == log[i].page
        IN  (/\ StartOf(page) # NULL
             /\ page.properties.TillDate = NULL
             /\ ~DateLT(StartOf(page), cutoff)
             /\ Settled(log[i])) =>
                /\ log[i].outcome # "skipped"
                /\ log[i].id # 0
                /\ target_db[log[i].id].LeaveEnd =
                      DateProp(IsoFormat(StartOf(page)))

\* C16: a record whose end date is before its start date is written by no
\* create and no update.
C16_InvertedRange ==
    \A i \in DOMAIN log :
        LET page == log[i].page
        IN  (/\ StartOf(page) # NULL /\ EndOf(page) # NULL
             /\ DateLT(EndOf(page), StartOf(page))) =>
                /\ log[i].id = 0
                /\ log[i].outcome \notin {"created", "updated"}

\* C17: with the token, the source id or the target id missing, the
\* program does nothing but stop with RuntimeError: no part of run() is
\* reached, no query is made and the target is as it was; with all three
\* present no RuntimeError is raised.
C17_ConfigError ==
    /\ environ # EnvNames =>
          /\ pc \in {"idle", "aborted"}
          /\ pc = "aborted" => err = "RuntimeError"
          /\ at_start = NoRun
          /\ cutoff = NULL
          /\ source_rows = <<>>
          /\ target_index = EmptyIndex
          /\ index_builds = 0
          /\ log = <<>>
          /\ failed = 0
          /\ target_db \in TargetInits
    /\ environ = EnvNames => err # "RuntimeError"

\* The program was started twice with only the token set, against a target
\* that holds pages.
C17_Witness ==
    /\ environ = {"NOTION_TOKEN"}
    /\ pc = "aborted" /\ err = "RuntimeError"
    /\ clock = 2
    /\ target_db # <<>>

\* The records of the first k pages of a chain, in order.
RECURSIVE Records(_, _)
Records(chain, k) ==
    IF k = 0 THEN <<>> ELSE Records(chain, k - 1) \o chain[k].results

\* The first page of a chain whose has_more is false.
LastPage(chain) ==
    CHOOSE k \in 1..Len(chain) :
        ~chain[k].has_more /\ \A i \in 1..(k - 1) : chain[i].has_more

\* What query_all() has read so far is the chain from its first page on,
\* page by page, and what it returns is the records of the pages up to the
\* first one with has_more false.
PagingSound ==
    /\ query.pc \in {"request", "returned", "raised"}
    /\ \A i \in DOMAIN query.reads :
          /\ query.reads[i] = i
          /\ i > 1 => query.reads[i] # 1
          /\ i > 1 => query.chain[i - 1].next_cursor = Cursor(query.reads[i])
          /\ i < Len(query.reads) => query.chain[i].has_more
    /\ query.results = Records(query.chain, Len(query.reads))
    /\ Len(query.reads) <= LastPage(query.chain)
    /\ query.pc = "returned" =>
          /\ Len(query.reads) = LastPage(query.chain)
          /\ query.results = Records(query.chain, LastPage(query.chain))
          /\ query.results = QueryAll(query.chain)

\* C18: for every finite chain of pages query_all() ends, it returns the
\* records of every page it was given once each and in the order fetched,
\* it stops at the first page whose has_more is false, and after a page
\* with has_more true it asks for the page the returned cursor names, never
\* for the first page again.
C18_Paging ==
    /\ []PagingSound
    /\ <>(query.pc \in {"returned", "raised"})

\* A chain of three pages has been read to its end.
C18_Witness ==
    /\ query.pc = "returned"
    /\ query.reads = <<1, 2, 3>>
    /\ Len(query.results) = 2
    /\ query.chain[2].results # <<>>

\* The entries of the log for rows the loop skipped.
Skipped == { i \in DOMAIN log : log[i].outcome = "skipped" }

\* C19: when a run completes, every fetched row has been counted once, as
\* created, updated or skipped: the three counters add up to the number of
\* fetched rows, created is the number of create calls made and updated the
\* number of update calls; while the loop runs they add up to the rows
\* handled so far.
C19_RunAccounting ==
    /\ pc = "loop" => created + updated + skipped = pos - 1
    /\ pc = "done" =>
          /\ created + updated + skipped = Len(source_rows)
          /\ Len(log) = Len(source_rows)
          /\ \A i \in DOMAIN log :
                /\ log[i].page = source_rows[i]
                /\ Settled(log[i])
          /\ created = Cardinality(Creates)
          /\ updated = Cardinality(Updates)
          /\ skipped = Cardinality(Skipped)
          /\ Len(target_db) = Len(at_start.target) + created

\* A completed run that created, updated and skipped.
C19_Witness ==
    /\ pc = "done"
    /\ created = 1 /\ updated = 1 /\ skipped = 1
    /\ Len(source_rows) = 3

\* C20: an update from a row with no leave type leaves "Leave Type" of the
\* target page as it was, an update from a row with no requestor leaves
\* "Assigned To" as it was, and every other mirrored property is
\* overwritten with the row's value.
C20_StaleFields ==
    [][ \A t \in DOMAIN target_db :
            target_db'[t] # target_db[t] =>
                LET page == source_rows[pos]
                    props == page.properties
                    old == target_db[t]
                    new == target_db'[t]
                IN  /\ pc = "loop"
                    /\ old.SyncKey = <<SyncKeyOf(page)>>
                    /\ new.LeaveType =
                          IF props.LeaveType = NULL THEN old.LeaveType
                          ELSE Select(props.LeaveType.name)
                    /\ new.AssignedTo =
                          IF props.Requestor = {} THEN old.AssignedTo
                          ELSE props.Requestor
                    /\ new.Name = "Leave | " \o IsoFormat(StartOf(page))
                                     \o " -> " \o IsoFormat(EndOf(page))
                    /\ new.SyncKey = <<SyncKeyOf(page)>>
                    /\ new.LeaveStart = DateProp(IsoFormat(StartOf(page)))
                    /\ new.LeaveEnd = DateProp(IsoFormat(EndOf(page)))
                    /\ new.ClientUnavail = props.ClientUnavail
                    /\ new.ISOWeek = IsoWeekStr(StartOf(page))
                    /\ new.LastSynced = clock ]_vars

\* A page that had a leave type and an assignee has been updated from a row
\* with neither: it still has both, and its other properties are the row's.
C20_Witness ==
    \E i \in Updates :
        /\ log[i].page.properties.LeaveType = NULL
        /\ log[i].page.properties.Requestor = {}
        /\ log[i].id \in DOMAIN at_start.target
        /\ at_start.target[log[i].id].LeaveType # NULL
        /\ target_db[log[i].id].LeaveType = at_start.target[log[i].id].LeaveType
        /\ target_db[log[i].id].AssignedTo = at_start.target[log[i].id].AssignedTo
        /\ target_db[log[i].id].AssignedTo # {}
        /\ target_db[log[i].id].Name # at_start.target[log[i].id].Name
        /\ target_db[log[i].id].ClientUnavail

====
